---- MODULE Spec2Model ----
(***************************************************************************)
(* Nonce (sequence number) management of the Substrate backend API.        *)
(*                                                                         *)
(* NonceManager (src/src/nonce_manager.rs) keeps a HashMap from account    *)
(* key to the next nonce to hand out, behind one tokio Mutex.              *)
(* do_something_handler (src/src/handlers.rs) reserves a nonce, builds and *)
(* submits a transaction and resets the nonce on every failure after the   *)
(* reservation.  A background task (src/src/main.rs) calls sync_with_chain *)
(* on a timer.  Every .await of the code is a point where other tasks run: *)
(* one action of the model per stretch of code between two awaits.         *)
(***************************************************************************)
EXTENDS Integers, FiniteSets, Sequences, TLC

\* The bound of the model: the ledger's account nonces stay within 0..MaxNonce,
\* and get_next_nonce is not called on an entry beyond it.
MaxNonce == 3

\* The signer accounts the requests draw from, and one seed that
\* Pair::from_string rejects.
Identity == {"X", "Y"}
BadSeed == "bad"
Seeds == Identity \cup {BadSeed}

\* The do_something_handler tasks that can be in flight together.
Requests == {1, 2}

\* The two environments the service is checked in: several requests in flight
\* that sign with one account, and one request in flight at a time with any
\* account.
OneAccount == {"X"}
OneRequest == {1}

VARIABLES
    cache,          \* nonce_cache: HashMap<[u8; 32], u64>, a function on its key set
    lock,           \* the tokio Mutex around nonce_cache: who holds it
    chain,          \* the ledger's account nonce of every account
    pc,             \* where each handler task stands
    account_id,     \* handler local: the signer's account
    cached_nonce,   \* get_next_nonce local: Option<u64>, a set of at most one value
    chain_nonce,    \* get_next_nonce local: the fetched account nonce
    nonce,          \* handler local: the nonce get_next_nonce returned
    tx,             \* the nonce the signed transaction carries
    included,       \* whether the ledger has included the request's transaction
    in_block,       \* the block the ledger included the request's transaction in
    error,          \* the error create_signed_transaction_with_nonce returned
    block_hash,     \* the block the handler's response names
    response,       \* the response the handler returns
    sync_pc,        \* where the background sync task stands
    todo,           \* the keys cache.iter_mut() has yet to yield
    last_write,     \* history: the last completed call that wrote each cache entry
    fresh,          \* history: the request holds a nonce and no reset_nonce of its
                    \* account has run since get_next_nonce chose it
    observed,       \* history: the account nonce the last successful account_nonce
                    \* call of the nonce manager returned for each account
    allocated,      \* history: the accounts get_next_nonce has returned a nonce for
    pre_sync,       \* history: the cache when the running sweep took the lock
    seen,           \* history: the account nonces the running sweep has fetched
    sync_err        \* history: the entries whose fetch failed in the running sweep,
                    \* or in the last one until the next sweep starts

vars == <<cache, lock, chain, pc, account_id, cached_nonce, chain_nonce, nonce,
          tx, included, in_block, error, block_hash, response, sync_pc, todo,
          last_write, fresh, observed, allocated, pre_sync, seen, sync_err>>

reqVars == <<pc, account_id, cached_nonce, chain_nonce, nonce, tx, included, in_block,
             error, block_hash, response>>
syncVars == <<sync_pc, todo, pre_sync, seen, sync_err>>
histVars == <<last_write, fresh, observed, allocated>>

----------------------------------------------------------------------------
\* Data

\* Option<T> as a set with at most one element.
None == {}
Some(v) == {v}
Unwrap(o) == CHOOSE v \in o : TRUE

Max(a, b) == IF a >= b THEN a ELSE b

\* HashMap::new()
EmptyMap == [k \in {} |-> 0]

\* HashMap::insert(k, v)
Insert(m, k, v) == [x \in DOMAIN m \cup {k} |-> IF x = k THEN v ELSE m[x]]

\* HashMap::get(k).copied()
Get(m, k) == IF k \in DOMAIN m THEN Some(m[k]) ELSE None

\* Holders of the Mutex.
Free == [kind |-> "free", task |-> 0]
\* Variant of ByRequest: get_next_nonce does not keep the guard while it runs.
ByRequestReleased(r) == Free

ByRequest(r) == [kind |-> "request", task |-> r]
\* Variant of Dropped: the mutex stays locked when the guard goes out of scope.
Leaked(guard) == guard

\* The mutex after the guard that holds it goes out of scope, at the return of
\* get_next_nonce and sync_with_chain and at their `?`.
Dropped(guard) == Free

\* Variant of AfterFailedAllocate: the handler goes on to sign.
AfterFailedAllocateGoesOn == "construct"

\* The handler after get_next_nonce returned Err: it answers and returns.
AfterFailedAllocate == "done"

\* Variant of BySync: sync_with_chain does not keep the guard while it runs.
BySyncReleased == Free

BySync == [kind |-> "sync", task |-> 0]

\* AccountId32::from(signer.public())
AccountOf(seed) == seed

\* The sum of f over the set S.
RECURSIVE Sum(_, _)
Sum(f, S) == IF S = {} THEN 0 ELSE LET x == CHOOSE y \in S : TRUE IN f[x] + Sum(f, S \ {x})

\* The number of the ledger's latest block, the block blocks().at_latest()
\* answers with: every included transaction of an account is in a block of its
\* own, so the blocks after genesis are as many as the nonces consumed.
Latest(nonces) == Sum(nonces, DOMAIN nonces)

\* The errors of the two signing methods of create_signed_transaction_with_nonce.
ExplicitError == "create_signed_offline failed"
FallbackError == "create_signed failed"

\* Variant of CreateError: the error of the first method is returned.
CreateErrorFirst(explicit_error, fallback_error) == explicit_error

\* The error create_signed_transaction_with_nonce returns when both methods
\* fail: `Err(e) => Err(e)` in the match on create_signed.
CreateError(explicit_error, fallback_error) == fallback_error

\* Variant of AfterSync: the task ends when sync_with_chain returns an error.
AfterSyncPropagate(errors) == IF errors = {} THEN "sleep" ELSE "stopped"

\* Where the background task goes when sync_with_chain has returned: an error
\* is logged and the loop goes on to the next interval.tick().
AfterSync(errors) == "sleep"

\* Variants of NextNonce: the cache keeps the nonce just handed out; the cache
\* skips a nonce.
NextNonceStuck(n) == n
NextNonceSkip(n) == n + 2

\* nonce_to_use + 1
NextNonce(n) == n + 1

\* Variants of NonceToUse: a cached value is used without looking at the chain;
\* the chain's value is used without looking at the cache.
NonceToUseCached(cached, fetched) == IF cached = None THEN fetched ELSE Unwrap(cached)
NonceToUseChain(cached, fetched) == fetched

\* The match on cached_nonce in get_next_nonce.
NonceToUse(cached, fetched) ==
    IF cached = None THEN fetched ELSE Max(Unwrap(cached), fetched)

\* Variants of Synced: the entry is overwritten whatever the comparison says;
\* the comparison is inverted; the entry is never raised.
SyncedOverwrite(cached, fetched) == fetched
SyncedKeep(cached, fetched) == cached
SyncedLower(cached, fetched) == IF fetched < cached THEN fetched ELSE cached

\* The comparison in sync_with_chain: the new value of an entry.
Synced(cached, fetched) == IF fetched > cached THEN fetched ELSE cached

\* History records: which call last wrote an entry, and the nonce it returned
\* (get_next_nonce) or was given (reset_nonce).
NoWrite == [by |-> "none", val |-> 0]
WrittenBy(call, v) == [by |-> call, val |-> v]

----------------------------------------------------------------------------
Init ==
    /\ cache = EmptyMap
    /\ lock = Free
    /\ chain = [a \in Identity |-> 0]
    /\ pc = [r \in Requests |-> "idle"]
    /\ account_id = [r \in Requests |-> None]
    /\ cached_nonce = [r \in Requests |-> None]
    /\ chain_nonce = [r \in Requests |-> None]
    /\ nonce = [r \in Requests |-> None]
    /\ tx = [r \in Requests |-> None]
    /\ included = [r \in Requests |-> FALSE]
    /\ in_block = [r \in Requests |-> None]
    /\ error = [r \in Requests |-> None]
    /\ block_hash = [r \in Requests |-> None]
    /\ response = [r \in Requests |-> "none"]
    /\ sync_pc = "sleep"
    /\ todo = {}
    /\ last_write = [a \in Identity |-> NoWrite]
    /\ fresh = [r \in Requests |-> FALSE]
    /\ observed = [a \in Identity |-> None]
    /\ allocated = {}
    /\ pre_sync = EmptyMap
    /\ seen = EmptyMap
    /\ sync_err = {}

----------------------------------------------------------------------------
\* The ledger

\* A transaction of the account submitted by someone else is included, in a new
\* block.
ExternalTx(a) ==
    /\ chain[a] < MaxNonce
    /\ chain' = [chain EXCEPT ![a] = @ + 1]
    /\ UNCHANGED <<cache, lock, reqVars, syncVars, histVars>>

\* The ledger includes the pending transaction of request r in a new block: it
\* must carry the account's next nonce, which it consumes.
LedgerInclude(r) ==
    /\ pc[r] = "wait"
    /\ ~included[r]
    /\ LET a == Unwrap(account_id[r]) IN
        /\ Unwrap(tx[r]) = chain[a]
        /\ chain[a] < MaxNonce
        /\ chain' = [chain EXCEPT ![a] = @ + 1]
        /\ in_block' = [in_block EXCEPT ![r] = Some(Latest(chain'))]
    /\ included' = [included EXCEPT ![r] = TRUE]
    /\ UNCHANGED <<cache, lock, pc, account_id, cached_nonce, chain_nonce, nonce, tx,
                   error, block_hash, response, syncVars, histVars>>

----------------------------------------------------------------------------
\* do_something_handler and NonceManager::get_next_nonce

\* A request arrives; Pair::from_string parses its signer seed.
Start(r, seed) ==
    /\ pc[r] = "idle"
    /\ IF seed = BadSeed
       THEN /\ pc' = [pc EXCEPT ![r] = "done"]
            /\ response' = [response EXCEPT ![r] = "invalid_signer"]
            /\ UNCHANGED account_id
       ELSE /\ pc' = [pc EXCEPT ![r] = "lock_wait"]
            /\ account_id' = [account_id EXCEPT ![r] = Some(AccountOf(seed))]
            /\ UNCHANGED response
    /\ UNCHANGED <<cache, lock, chain, cached_nonce, chain_nonce, nonce, tx, included,
                   in_block, error, block_hash, syncVars, histVars>>

\* get_next_nonce: the lock is acquired and the cache read.
AllocLock(r) ==
    /\ pc[r] = "lock_wait"
    /\ lock = Free
    /\ LET a == Unwrap(account_id[r]) IN
        /\ a \in DOMAIN cache => cache[a] <= MaxNonce
        /\ cached_nonce' = [cached_nonce EXCEPT ![r] = Get(cache, a)]
    /\ lock' = ByRequest(r)
    /\ pc' = [pc EXCEPT ![r] = "fetch"]
    /\ UNCHANGED <<cache, chain, account_id, chain_nonce, nonce, tx, included, in_block,
                   error, block_hash, response, syncVars, histVars>>

\* get_next_nonce: account_nonce answers; the nonce is chosen and the next one
\* reserved in the cache.  The guard is still held.
AllocFetchOk(r) ==
    /\ pc[r] = "fetch"
    /\ lock = ByRequest(r)
    /\ LET a == Unwrap(account_id[r])
           fetched == chain[a]
           nonce_to_use == NonceToUse(cached_nonce[r], fetched)
       IN
        /\ chain_nonce' = [chain_nonce EXCEPT ![r] = Some(fetched)]
        /\ cache' = Insert(cache, a, NextNonce(nonce_to_use))
        /\ nonce' = [nonce EXCEPT ![r] = Some(nonce_to_use)]
        /\ observed' = [observed EXCEPT ![a] = Some(fetched)]
        /\ allocated' = allocated \cup {a}
    /\ fresh' = [fresh EXCEPT ![r] = TRUE]
    /\ pc' = [pc EXCEPT ![r] = "reserved"]
    /\ UNCHANGED <<lock, chain, account_id, cached_nonce, tx, included, in_block, error,
                   block_hash, response, syncVars, last_write>>

\* get_next_nonce returns Ok(nonce_to_use): the guard is dropped and the handler
\* goes on with the nonce.
AllocReturn(r) ==
    /\ pc[r] = "reserved"
    /\ lock = ByRequest(r)
    /\ lock' = Dropped(lock)
    /\ pc' = [pc EXCEPT ![r] = "construct"]
    /\ cached_nonce' = [cached_nonce EXCEPT ![r] = None]
    /\ chain_nonce' = [chain_nonce EXCEPT ![r] = None]
    /\ last_write' = [last_write EXCEPT ![Unwrap(account_id[r])] =
                          WrittenBy("get_next_nonce", Unwrap(nonce[r]))]
    /\ UNCHANGED <<cache, chain, account_id, nonce, tx, included, in_block, error,
                   block_hash, response, syncVars, fresh, observed, allocated>>

\* Variant of CacheAfterFailedFetch: an entry is created for the account before
\* the chain is asked.
CacheAfterFailedFetchDefault(m, a) == IF a \in DOMAIN m THEN m ELSE Insert(m, a, 0)

\* The cache after a failed account_nonce call in get_next_nonce.
CacheAfterFailedFetch(m, a) == m

\* get_next_nonce: account_nonce fails; `?` returns the error, the guard is
\* dropped, and the handler answers "Failed to get nonce".
AllocFetchErr(r) ==
    /\ pc[r] = "fetch"
    /\ lock = ByRequest(r)
    /\ cache' = CacheAfterFailedFetch(cache, Unwrap(account_id[r]))
    /\ lock' = Dropped(lock)
    /\ pc' = [pc EXCEPT ![r] = AfterFailedAllocate]
    /\ cached_nonce' = [cached_nonce EXCEPT ![r] = None]
    /\ account_id' = [account_id EXCEPT ![r] = None]
    /\ response' = [response EXCEPT ![r] = "nonce_failed"]
    /\ UNCHANGED <<chain, chain_nonce, nonce, tx, included, in_block, error, block_hash,
                   syncVars, histVars>>

----------------------------------------------------------------------------
\* create_signed_transaction_with_nonce

\* try_with_explicit_nonce succeeds: the transaction carries the given nonce.
ConstructExplicit(r) ==
    /\ pc[r] = "construct"
    /\ tx' = [tx EXCEPT ![r] = nonce[r]]
    /\ pc' = [pc EXCEPT ![r] = "send"]
    /\ UNCHANGED <<cache, lock, chain, account_id, cached_nonce, chain_nonce, nonce,
                   included, in_block, error, block_hash, response, syncVars, histVars>>

\* try_with_explicit_nonce fails: its error is dropped and the handler task goes
\* on to create_signed, which asks the node.
ExplicitErr(r) ==
    /\ pc[r] = "construct"
    /\ pc' = [pc EXCEPT ![r] = "fallback"]
    /\ UNCHANGED <<cache, lock, chain, account_id, cached_nonce, chain_nonce, nonce, tx,
                   included, in_block, error, block_hash, response, syncVars, histVars>>

\* create_signed succeeds: the client signs with the account nonce it fetches
\* itself.
ConstructFallback(r) ==
    /\ pc[r] = "fallback"
    /\ tx' = [tx EXCEPT ![r] = Some(chain[Unwrap(account_id[r])])]
    /\ pc' = [pc EXCEPT ![r] = "send"]
    /\ UNCHANGED <<cache, lock, chain, account_id, cached_nonce, chain_nonce, nonce,
                   included, in_block, error, block_hash, response, syncVars, histVars>>

\* create_signed fails too: its error is returned and the handler goes on to
\* reset the nonce.
ConstructFail(r) ==
    /\ pc[r] = "fallback"
    /\ pc' = [pc EXCEPT ![r] = "reset_create"]
    /\ error' = [error EXCEPT ![r] = Some(CreateError(ExplicitError, FallbackError))]
    /\ UNCHANGED <<cache, lock, chain, account_id, cached_nonce, chain_nonce, nonce, tx,
                   included, in_block, block_hash, response, syncVars, histVars>>

----------------------------------------------------------------------------
\* Submission and finalization

\* submit_and_watch succeeds: the node accepts a transaction whose nonce the
\* account has not used yet.
SubmitOk(r) ==
    /\ pc[r] = "send"
    /\ Unwrap(tx[r]) >= chain[Unwrap(account_id[r])]
    /\ pc' = [pc EXCEPT ![r] = "wait"]
    /\ UNCHANGED <<cache, lock, chain, account_id, cached_nonce, chain_nonce, nonce, tx,
                   included, in_block, error, block_hash, response, syncVars, histVars>>

\* submit_and_watch fails.
SubmitErr(r) ==
    /\ pc[r] = "send"
    /\ pc' = [pc EXCEPT ![r] = "reset_submit"]
    /\ tx' = [tx EXCEPT ![r] = None]
    /\ UNCHANGED <<cache, lock, chain, account_id, cached_nonce, chain_nonce, nonce,
                   included, in_block, error, block_hash, response, syncVars, histVars>>

\* wait_for_finalized_success succeeds: the block of the transaction is
\* final.  The handler goes on to ask the node for the latest block.
FinalizedOk(r) ==
    /\ pc[r] = "wait"
    /\ included[r]
    /\ pc' = [pc EXCEPT ![r] = "latest"]
    /\ account_id' = [account_id EXCEPT ![r] = None]
    /\ nonce' = [nonce EXCEPT ![r] = None]
    /\ tx' = [tx EXCEPT ![r] = None]
    /\ included' = [included EXCEPT ![r] = FALSE]
    /\ fresh' = [fresh EXCEPT ![r] = FALSE]
    /\ UNCHANGED <<cache, lock, chain, cached_nonce, chain_nonce, in_block, error,
                   block_hash, response, syncVars, last_write, observed, allocated>>

\* blocks().at_latest() answers: the response names that block's hash and
\* header.
LatestOk(r) ==
    /\ pc[r] = "latest"
    /\ pc' = [pc EXCEPT ![r] = "done"]
    /\ block_hash' = [block_hash EXCEPT ![r] = Some(Latest(chain))]
    /\ in_block' = [in_block EXCEPT ![r] = None]
    /\ response' = [response EXCEPT ![r] = "success"]
    /\ UNCHANGED <<cache, lock, chain, account_id, cached_nonce, chain_nonce, nonce, tx,
                   included, error, syncVars, histVars>>

\* blocks().at_latest() fails: the handler answers "Failed to fetch latest
\* block".
LatestErr(r) ==
    /\ pc[r] = "latest"
    /\ pc' = [pc EXCEPT ![r] = "done"]
    /\ in_block' = [in_block EXCEPT ![r] = None]
    /\ response' = [response EXCEPT ![r] = "latest_block_failed"]
    /\ UNCHANGED <<cache, lock, chain, account_id, cached_nonce, chain_nonce, nonce, tx,
                   included, error, block_hash, syncVars, histVars>>

\* wait_for_finalized_success fails: the extrinsic failed in its block, or the
\* wait ended before the transaction was included.
FinalizedErr(r) ==
    /\ pc[r] = "wait"
    /\ pc' = [pc EXCEPT ![r] = "reset_final"]
    /\ tx' = [tx EXCEPT ![r] = None]
    /\ in_block' = [in_block EXCEPT ![r] = None]
    /\ UNCHANGED <<cache, lock, chain, account_id, cached_nonce, chain_nonce, nonce,
                   included, error, block_hash, response, syncVars, histVars>>

\* The three places the handler calls reset_nonce, and its response after each.
ResetSites == {"reset_create", "reset_submit", "reset_final"}
ResponseAfterReset(site) ==
    CASE site = "reset_create" -> "create_failed"
      [] site = "reset_submit" -> "submit_failed"
      [] site = "reset_final" -> "tx_failed"

\* Variants of ResetCache: the cache is reset to the nonce after the failed one;
\* the cache is left as it is; an entry above the failed nonce is kept.
ResetCacheNext(m, a, failed_nonce) == Insert(m, a, failed_nonce + 1)
ResetCacheKeep(m, a, failed_nonce) == m
ResetCacheMax(m, a, failed_nonce) ==
    Insert(m, a, IF a \in DOMAIN m THEN Max(m[a], failed_nonce) ELSE failed_nonce)

\* Variant of ResetCache: the map is cleared before the insert.
ResetCacheClear(m, a, failed_nonce) == Insert(EmptyMap, a, failed_nonce)

\* Variant of ResetCache: the entry is removed, for the next get_next_nonce to
\* start from the chain.
ResetCacheRemove(m, a, failed_nonce) == [k \in DOMAIN m \ {a} |-> m[k]]

\* reset_nonce: the cache after cache.insert(account_id.0, failed_nonce).
ResetCache(m, a, failed_nonce) == Insert(m, a, failed_nonce)

\* reset_nonce(account_id, nonce): lock, insert, unlock, with no await in
\* between; then the handler builds its response.
ResetNonce(r) ==
    /\ pc[r] \in ResetSites
    /\ lock = Free
    /\ LET a == Unwrap(account_id[r]) IN
        /\ cache' = ResetCache(cache, a, Unwrap(nonce[r]))
        /\ last_write' = [last_write EXCEPT ![a] = WrittenBy("reset_nonce", Unwrap(nonce[r]))]
        /\ fresh' = [q \in Requests |-> fresh[q] /\ account_id[q] # Some(a)]
    /\ pc' = [pc EXCEPT ![r] = "done"]
    /\ response' = [response EXCEPT ![r] = ResponseAfterReset(pc[r])]
    /\ account_id' = [account_id EXCEPT ![r] = None]
    /\ nonce' = [nonce EXCEPT ![r] = None]
    /\ included' = [included EXCEPT ![r] = FALSE]
    /\ in_block' = [in_block EXCEPT ![r] = None]
    /\ error' = [error EXCEPT ![r] = None]
    /\ UNCHANGED <<lock, chain, cached_nonce, chain_nonce, tx, block_hash, syncVars,
                   observed, allocated>>

\* The handler returns its response; the task ends and its slot is free again.
Return(r) ==
    /\ pc[r] = "done"
    /\ pc' = [pc EXCEPT ![r] = "idle"]
    /\ response' = [response EXCEPT ![r] = "none"]
    /\ block_hash' = [block_hash EXCEPT ![r] = None]
    /\ UNCHANGED <<cache, lock, chain, account_id, cached_nonce, chain_nonce, nonce, tx,
                   included, in_block, error, syncVars, histVars>>

----------------------------------------------------------------------------
\* The background task of main and NonceManager::sync_with_chain

\* interval.tick() fires and the task calls sync_with_chain.
Tick ==
    /\ sync_pc = "sleep"
    /\ sync_pc' = "lock_wait"
    /\ UNCHANGED <<cache, lock, chain, reqVars, todo, pre_sync, seen, sync_err, histVars>>

\* sync_with_chain takes the lock and starts cache.iter_mut(); with an empty
\* cache the loop body never runs.
SyncLock ==
    /\ sync_pc = "lock_wait"
    /\ lock = Free
    /\ lock' = BySync
    /\ pre_sync' = cache
    /\ todo' = DOMAIN cache
    /\ sync_pc' = IF DOMAIN cache = {} THEN "return" ELSE "sweep"
    /\ sync_err' = {}
    /\ UNCHANGED <<cache, chain, reqVars, seen, histVars>>

\* One iteration of the loop: account_nonce answers for the entry the iterator
\* yields, and the entry is raised if the chain is ahead.
SyncFetchOk(a) ==
    /\ sync_pc = "sweep"
    /\ a \in todo
    /\ LET fetched == chain[a] IN
        /\ cache' = [cache EXCEPT ![a] = Synced(cache[a], fetched)]
        /\ seen' = Insert(seen, a, fetched)
        /\ observed' = [observed EXCEPT ![a] = Some(fetched)]
        /\ last_write' = [last_write EXCEPT ![a] =
                              IF cache'[a] # cache[a]
                              THEN WrittenBy("sync_with_chain", fetched) ELSE @]
    /\ todo' = todo \ {a}
    /\ sync_pc' = IF todo' = {} THEN "return" ELSE "sweep"
    /\ UNCHANGED <<lock, chain, reqVars, pre_sync, sync_err, fresh, allocated>>

\* Variant of TodoAfterFailedFetch: the loop goes on with the other entries.
TodoAfterFailedFetchSkip(remaining, a) == remaining \ {a}

\* The entries the loop still visits after account_nonce failed for entry a:
\* none, `?` leaves the loop and the function.
TodoAfterFailedFetch(remaining, a) == {}

\* account_nonce fails for the entry the iterator yields.
SyncFetchErr(a) ==
    /\ sync_pc = "sweep"
    /\ a \in todo
    /\ todo' = TodoAfterFailedFetch(todo, a)
    /\ sync_err' = sync_err \cup {a}
    /\ sync_pc' = IF todo' = {} THEN "return" ELSE "sweep"
    /\ UNCHANGED <<cache, lock, chain, reqVars, pre_sync, seen, histVars>>

\* sync_with_chain returns, Ok(()) or the error, and the guard is dropped; the
\* task logs an error and loops to the next tick.
SyncReturn ==
    /\ sync_pc = "return"
    /\ lock = BySync
    /\ lock' = Dropped(lock)
    /\ sync_pc' = AfterSync(sync_err)
    /\ todo' = {}
    /\ pre_sync' = EmptyMap
    /\ seen' = EmptyMap
    /\ UNCHANGED <<cache, chain, reqVars, sync_err, histVars>>

----------------------------------------------------------------------------
\* One step of the service with the handler tasks `tasks` serving requests
\* signed by the accounts `accounts`.
Step(tasks, accounts) ==
    \/ \E a \in accounts : ExternalTx(a)
    \/ \E r \in tasks : LedgerInclude(r)
    \/ \E r \in tasks, seed \in accounts \cup {BadSeed} : Start(r, seed)
    \/ \E r \in tasks : AllocLock(r)
    \/ \E r \in tasks : AllocFetchOk(r)
    \/ \E r \in tasks : AllocReturn(r)
    \/ \E r \in tasks : AllocFetchErr(r)
    \/ \E r \in tasks : ConstructExplicit(r)
    \/ \E r \in tasks : ExplicitErr(r)
    \/ \E r \in tasks : ConstructFallback(r)
    \/ \E r \in tasks : ConstructFail(r)
    \/ \E r \in tasks : SubmitOk(r)
    \/ \E r \in tasks : SubmitErr(r)
    \/ \E r \in tasks : FinalizedOk(r)
    \/ \E r \in tasks : LatestOk(r)
    \/ \E r \in tasks : LatestErr(r)
    \/ \E r \in tasks : FinalizedErr(r)
    \/ \E r \in tasks : ResetNonce(r)
    \/ \E r \in tasks : Return(r)
    \/ Tick
    \/ SyncLock
    \/ \E a \in accounts : SyncFetchOk(a)
    \/ \E a \in accounts : SyncFetchErr(a)
    \/ SyncReturn

\* Concurrent requests that all sign with the same account.
Next == Step(Requests, OneAccount)
Spec == Init /\ [][Next]_vars

\* Requests served one at a time, signed by any of the accounts.
NextAccounts == Step(OneRequest, Identity)
SpecAccounts == Init /\ [][NextAccounts]_vars

\* The scheduling of the runtime: an account_nonce call returns, with a value
\* or an error; a task that can take its next step inside a call does; the
\* mutex serves its waiters in turn, so a task that waits for it gets it.
Fairness(tasks, accounts) ==
    /\ \A r \in tasks : SF_vars(AllocLock(r))
    /\ \A r \in tasks : WF_vars(AllocFetchOk(r) \/ AllocFetchErr(r))
    /\ \A r \in tasks : WF_vars(AllocReturn(r))
    /\ \A r \in tasks : SF_vars(ResetNonce(r))
    /\ SF_vars(SyncLock)
    /\ WF_vars(\E a \in accounts : SyncFetchOk(a) \/ SyncFetchErr(a))
    /\ WF_vars(SyncReturn)

\* One request at a time signed by one account, beside the background sweep,
\* under that scheduling.
NextFair == Step(OneRequest, OneAccount)
SpecFair == Init /\ [][NextFair]_vars /\ Fairness(OneRequest, OneAccount)

----------------------------------------------------------------------------
\* get_next_nonce in the arithmetic of u64

\* The width of the nonces: chain_nonce, the cache values and nonce_to_use are
\* all u64.
U64Bits == 64

\* A u64 is written as its 16-bit limbs, the least significant first.
Limbs == 1..(U64Bits \div 16)
LimbMax == 2^16 - 1
U64 == [Limbs -> 0..LimbMax]
U64Zero == [i \in Limbs |-> 0]
U64Max == [i \in Limbs |-> LimbMax]

\* x + 1 modulo 2^64: the carry runs through the limbs that are full.
WrappingAdd1(x) ==
    [i \in Limbs |-> IF \A j \in 1..(i - 1) : x[j] = LimbMax
                      THEN (x[i] + 1) % (LimbMax + 1)
                      ELSE x[i]]

\* x < y on u64: the most significant limb that differs decides.
Less64(x, y) ==
    \E i \in Limbs : x[i] < y[i] /\ \A j \in Limbs : j > i => x[j] = y[j]

\* cached.max(chain_nonce)
Max64(x, y) == IF Less64(x, y) THEN y ELSE x

\* The match on cached_nonce in get_next_nonce, on u64 values.
NonceToUse64(cached, fetched) ==
    IF cached = None THEN fetched ELSE Max64(Unwrap(cached), fetched)

\* The outcomes of `nonce_to_use + 1`: the sum; at u64::MAX, a panic in a build
\* with overflow checks (no value) and the wrapped sum in a build without.
Add1(x) == IF x = U64Max THEN {None, Some(WrappingAdd1(x))} ELSE {Some(WrappingAdd1(x))}

\* The account nonces the chain answers with: zero, a value whose increment
\* carries into the next limb, and the two largest values.
ChainNonces ==
    {U64Zero,
     [i \in Limbs |-> IF i = 1 THEN LimbMax ELSE 0],
     [i \in Limbs |-> IF i = 1 THEN LimbMax - 1 ELSE LimbMax],
     U64Max}

InitWide ==
    /\ cache = EmptyMap
    /\ lock = Free
    /\ chain \in [Identity -> ChainNonces]
    /\ pc = [r \in Requests |-> "idle"]
    /\ account_id = [r \in Requests |-> None]
    /\ cached_nonce = [r \in Requests |-> None]
    /\ chain_nonce = [r \in Requests |-> None]
    /\ nonce = [r \in Requests |-> None]
    /\ tx = [r \in Requests |-> None]
    /\ included = [r \in Requests |-> FALSE]
    /\ in_block = [r \in Requests |-> None]
    /\ error = [r \in Requests |-> None]
    /\ block_hash = [r \in Requests |-> None]
    /\ response = [r \in Requests |-> "none"]
    /\ sync_pc = "sleep"
    /\ todo = {}
    /\ last_write = [a \in Identity |-> NoWrite]
    /\ fresh = [r \in Requests |-> FALSE]
    /\ observed = [a \in Identity |-> None]
    /\ allocated = {}
    /\ pre_sync = EmptyMap
    /\ seen = EmptyMap
    /\ sync_err = {}

\* get_next_nonce: the lock is acquired and the cache read.
AllocLockWide(r) ==
    /\ pc[r] = "lock_wait"
    /\ lock = Free
    /\ cached_nonce' = [cached_nonce EXCEPT ![r] = Get(cache, Unwrap(account_id[r]))]
    /\ lock' = ByRequest(r)
    /\ pc' = [pc EXCEPT ![r] = "fetch"]
    /\ UNCHANGED <<cache, chain, account_id, chain_nonce, nonce, tx, included, in_block,
                   error, block_hash, response, syncVars, histVars>>

\* get_next_nonce: account_nonce answers, the nonce is chosen and
\* nonce_to_use + 1 is inserted; if the addition panics the task unwinds, which
\* drops the guard, and the request gets no answer.
AllocFetchWide(r) ==
    /\ pc[r] = "fetch"
    /\ lock = ByRequest(r)
    /\ LET a == Unwrap(account_id[r])
           fetched == chain[a]
           nonce_to_use == NonceToUse64(cached_nonce[r], fetched)
       IN \E next \in Add1(nonce_to_use) :
            IF next = None
            THEN /\ pc' = [pc EXCEPT ![r] = "panicked"]
                 /\ lock' = Dropped(lock)
                 /\ cached_nonce' = [cached_nonce EXCEPT ![r] = None]
                 /\ account_id' = [account_id EXCEPT ![r] = None]
                 /\ UNCHANGED <<cache, chain_nonce, nonce, fresh, observed, allocated>>
            ELSE /\ chain_nonce' = [chain_nonce EXCEPT ![r] = Some(fetched)]
                 /\ cache' = Insert(cache, a, Unwrap(next))
                 /\ nonce' = [nonce EXCEPT ![r] = Some(nonce_to_use)]
                 /\ observed' = [observed EXCEPT ![a] = Some(fetched)]
                 /\ allocated' = allocated \cup {a}
                 /\ fresh' = [fresh EXCEPT ![r] = TRUE]
                 /\ pc' = [pc EXCEPT ![r] = "reserved"]
                 /\ UNCHANGED <<lock, account_id, cached_nonce>>
    /\ UNCHANGED <<chain, tx, included, in_block, error, block_hash, response, syncVars,
                   last_write>>

\* Requests served one at a time, whose transaction is signed and then refused
\* by submit_and_watch, with the nonces in u64: the steps that do arithmetic
\* are the two above, the others only move values.
NextWide ==
    \/ \E r \in OneRequest, seed \in Seeds : Start(r, seed)
    \/ \E r \in OneRequest : AllocLockWide(r)
    \/ \E r \in OneRequest : AllocFetchWide(r)
    \/ \E r \in OneRequest : AllocReturn(r)
    \/ \E r \in OneRequest : AllocFetchErr(r)
    \/ \E r \in OneRequest : ConstructExplicit(r)
    \/ \E r \in OneRequest : SubmitErr(r)
    \/ \E r \in OneRequest : ResetNonce(r)
    \/ \E r \in OneRequest : Return(r)
SpecWide == InitWide /\ [][NextWide]_vars

----------------------------------------------------------------------------
\* Properties

\* The account a request signs with, once it has one.
Account(r) == Unwrap(account_id[r])

\* get_next_nonce of request r has chosen its nonce and written the cache, and
\* still holds the lock.
Reserved(r) == pc[r] = "reserved"

\* C1: the nonces that get_next_nonce returns to the requests of one account are
\* pairwise distinct as long as no reset_nonce of that account runs between the
\* calls.
C1_Uniqueness ==
    \A r \in Requests, q \in Requests :
        (r # q /\ fresh[r] /\ fresh[q] /\ account_id[r] = account_id[q])
            => nonce[r] # nonce[q]

\* C1, Scenario D: two requests in flight on an empty cache with the chain at 0
\* hold 0 and 1.
C1_Witness ==
    \E r \in Requests, q \in Requests :
        /\ r # q /\ fresh[r] /\ fresh[q] /\ account_id[r] = account_id[q]
        /\ Reserved(r) /\ chain_nonce[r] = Some(0)
        /\ nonce[q] = Some(0) /\ nonce[r] = Some(1)

\* C2: get_next_nonce never hands a request a nonce while a transaction of
\* another request of the same account that carries this nonce, the one that
\* request was handed, is outstanding: sent, not finalized, not rolled back.
C2_UniqueOutstanding ==
    [][\A r \in Requests, q \in Requests :
        (/\ r # q
         /\ pc[r] = "fetch" /\ pc'[r] = "reserved"
         /\ pc[q] = "wait" /\ tx[q] = nonce[q]
         /\ account_id[r] = account_id[q])
            => nonce'[r] # tx[q]]_vars

\* C3: the nonce get_next_nonce returns is never below the account nonce the
\* call fetched from the chain.
C3_NotBelowChain ==
    \A r \in Requests :
        Reserved(r) => Unwrap(nonce[r]) >= Unwrap(chain_nonce[r])

\* C3: a call that follows a reset_nonce to a value the chain has passed returns
\* the chain's value.
C3_Witness ==
    \E r \in Requests :
        /\ Reserved(r)
        /\ last_write[Account(r)].by = "reset_nonce"
        /\ cached_nonce[r] # None
        /\ Unwrap(cached_nonce[r]) < Unwrap(chain_nonce[r])
        /\ nonce[r] = chain_nonce[r]

\* C4 as stated: when the entry was last written by get_next_nonce, the next
\* get_next_nonce of the account returns that call's nonce plus one, whatever
\* the chain reports.
C4_ExactlyOne ==
    \A r \in Requests :
        (Reserved(r) /\ last_write[Account(r)].by = "get_next_nonce")
            => Unwrap(nonce[r]) = last_write[Account(r)].val + 1

\* C4 amended: the next nonce is greater than the previous one, and is the
\* previous one plus one whenever the fetched account nonce is not beyond that.
C4_Increasing ==
    \A r \in Requests :
        (Reserved(r) /\ last_write[Account(r)].by = "get_next_nonce")
            => LET before == last_write[Account(r)].val IN
                /\ Unwrap(nonce[r]) > before
                /\ Unwrap(chain_nonce[r]) <= before + 1
                      => Unwrap(nonce[r]) = before + 1
                /\ Unwrap(chain_nonce[r]) > before + 1
                      => nonce[r] = chain_nonce[r]

\* C4: a call that follows another with the chain behind the cache.
C4_Witness ==
    \E r \in Requests :
        /\ Reserved(r)
        /\ last_write[Account(r)].by = "get_next_nonce"
        /\ Unwrap(chain_nonce[r]) <= last_write[Account(r)].val
        /\ Unwrap(nonce[r]) = last_write[Account(r)].val + 1

\* C5 as stated: when the entry was last written by reset_nonce(id, v), the next
\* get_next_nonce(id) returns v.
C5_ReturnsRolledBack ==
    \A r \in Requests :
        (Reserved(r) /\ last_write[Account(r)].by = "reset_nonce")
            => Unwrap(nonce[r]) = last_write[Account(r)].val

\* C5 amended: it returns v when the fetched account nonce is not above v, and
\* the fetched account nonce otherwise.
C5_ReturnsRolledBackOrChain ==
    \A r \in Requests :
        (Reserved(r) /\ last_write[Account(r)].by = "reset_nonce")
            => LET v == last_write[Account(r)].val IN
                /\ Unwrap(chain_nonce[r]) <= v => Unwrap(nonce[r]) = v
                /\ Unwrap(chain_nonce[r]) > v => nonce[r] = chain_nonce[r]

\* C5, Scenario C: the nonce of a failed request is handed out again.
C5_Witness ==
    \E r \in Requests :
        /\ Reserved(r)
        /\ last_write[Account(r)].by = "reset_nonce"
        /\ last_write[Account(r)].val > 0
        /\ Unwrap(chain_nonce[r]) <= last_write[Account(r)].val
        /\ Unwrap(nonce[r]) = last_write[Account(r)].val

\* C6: get_next_nonce returns the fetched account nonce when the account has no
\* entry and the greater of entry and fetched account nonce when it has one, and
\* leaves the entry at the returned nonce plus one.
C6_AllocateContract ==
    \A r \in Requests :
        Reserved(r) =>
            LET n == Unwrap(nonce[r])
                c == Unwrap(chain_nonce[r])
            IN  /\ cached_nonce[r] = None => n = c
                /\ cached_nonce[r] # None =>
                      /\ n >= Unwrap(cached_nonce[r]) /\ n >= c
                      /\ n = c \/ n = Unwrap(cached_nonce[r])
                /\ Account(r) \in DOMAIN cache
                /\ cache[Account(r)] = n + 1

\* C6, Scenario B: the chain is behind the entry; the entry's value is returned.
C6_Witness ==
    \E r \in Requests :
        /\ Reserved(r)
        /\ cached_nonce[r] = Some(2) /\ chain_nonce[r] = Some(1)
        /\ nonce[r] = Some(2) /\ cache[Account(r)] = 3

\* C7: when account_nonce fails in get_next_nonce the cache is left as it was
\* and the handler answers at once: it holds no nonce and no transaction, and
\* goes from its response to the end of the task without touching the cache.
C7_FailedAllocation ==
    [][\A r \in Requests :
        /\ (pc[r] = "fetch" /\ pc'[r] # "fetch" /\ nonce'[r] = None)
              => /\ cache' = cache
                 /\ lock' = Free
                 /\ pc'[r] = "done"
                 /\ response'[r] = "nonce_failed"
        /\ response'[r] = "nonce_failed"
              => pc'[r] = "done" /\ nonce'[r] = None /\ tx'[r] = None
        /\ (pc[r] = "done" /\ pc'[r] # "done")
              => pc'[r] = "idle" /\ cache' = cache]_vars

\* C7: a request has been answered "Failed to get nonce" while the cache holds
\* an entry.
C7_Witness ==
    \E r \in Requests :
        /\ response[r] = "nonce_failed"
        /\ DOMAIN cache # {}

\* C8: when sync_with_chain returns without a failed fetch, every entry whose
\* fetched account nonce was greater holds that account nonce and every other
\* entry holds the value it had.
C8_ReconcileRaises ==
    (sync_pc = "return" /\ sync_err = {}) =>
        /\ DOMAIN cache = DOMAIN pre_sync
        /\ DOMAIN seen = DOMAIN pre_sync
        /\ \A a \in DOMAIN pre_sync :
              cache[a] = IF seen[a] > pre_sync[a] THEN seen[a] ELSE pre_sync[a]

\* C8, Scenario E: one entry was raised to the chain's value, another kept.
C8_Witness ==
    /\ sync_pc = "return" /\ sync_err = {}
    /\ \E a \in DOMAIN pre_sync, b \in DOMAIN pre_sync :
          /\ pre_sync[a] = 1 /\ seen[a] = 3 /\ cache[a] = 3
          /\ seen[b] < pre_sync[b] /\ cache[b] = pre_sync[b]

\* C9: during and at the end of a sync_with_chain call, also one that stops on
\* an error, no entry is below the value it had when the call took the lock.
C9_NeverLowers ==
    sync_pc \in {"sweep", "return"} =>
        \A a \in DOMAIN pre_sync : a \in DOMAIN cache /\ cache[a] >= pre_sync[a]

\* C9: a call stopped on an error after it had raised an entry, with the chain
\* behind the other entry.
C9_Witness ==
    /\ sync_pc = "return" /\ sync_err # {}
    /\ \E a \in DOMAIN pre_sync : cache[a] > pre_sync[a]
    /\ \E b \in DOMAIN pre_sync : chain[b] < cache[b]

\* C10: when sync_with_chain returns, every entry whose fetch did not fail has
\* been fetched in that call.
C10_SkipAndContinue ==
    sync_pc = "return" => (DOMAIN pre_sync \ DOMAIN seen) \subseteq sync_err

\* C11 (I1): an entry is never below the account nonce that the last
\* get_next_nonce or sync_with_chain fetch for the account returned, unless the
\* entry holds the value the last reset_nonce of the account wrote.
C11_NotBelowObserved ==
    \A a \in DOMAIN cache :
        observed[a] # None =>
            \/ cache[a] >= Unwrap(observed[a])
            \/ last_write[a] = WrittenBy("reset_nonce", cache[a])

\* C11: sync_with_chain has raised an entry to the account nonce it fetched.
C11_Witness ==
    \E a \in DOMAIN cache :
        /\ last_write[a].by = "sync_with_chain"
        /\ observed[a] = Some(cache[a])
        /\ cache[a] > 1

\* C12 (I2): reset_nonce never leaves the entry of an account below the account
\* nonce that the last get_next_nonce or sync_with_chain fetch for the account
\* returned.
C12_RollbackNotBelowObserved ==
    [][\A r \in Requests :
        (pc[r] \in ResetSites /\ pc'[r] = "done")
            => cache'[Account(r)] >= Unwrap(observed[Account(r)])]_vars

\* The responses of the handler that report a failure after the nonce was
\* obtained.
FailedResponses == {ResponseAfterReset(site) : site \in ResetSites}

\* C13: a request that holds a nonce n gives it up only when its transaction is
\* final or in the step that answers with a failure, and that step has run
\* reset_nonce(account, n): no request that obtained a nonce reaches a failure
\* response, or any response, without it.
C13_RollbackBeforeResponse ==
    [][\A r \in Requests :
        /\ (nonce[r] # None /\ response'[r] # response[r])
              => /\ response'[r] \in FailedResponses
                 /\ Account(r) \in DOMAIN cache'
                 /\ cache'[Account(r)] = Unwrap(nonce[r])
                 /\ last_write'[Account(r)] = WrittenBy("reset_nonce", Unwrap(nonce[r]))
        /\ (nonce[r] # None /\ nonce'[r] = None)
              => \/ response'[r] \in FailedResponses
                 \/ pc[r] = "wait" /\ included[r] /\ pc'[r] = "latest"
        /\ (response'[r] \in FailedResponses /\ response[r] = "none")
              => nonce[r] # None /\ pc[r] \in ResetSites
        /\ (pc[r] # "done" /\ pc'[r] = "done") => response'[r] # "none"
        /\ (pc[r] = "fallback" /\ pc'[r] \notin {"fallback", "send"})
              => pc'[r] = "reset_create"
        /\ (pc[r] = "send" /\ pc'[r] \notin {"send", "wait"})
              => pc'[r] = "reset_submit"
        /\ (pc[r] = "wait" /\ pc'[r] \notin {"wait", "latest"})
              => pc'[r] = "reset_final"]_vars

\* C13: one request has answered that its transaction failed and another that
\* signing failed, and the entry holds the nonce of the one that answered last.
C13_Witness ==
    \E r \in Requests, q \in Requests :
        /\ response[r] = "tx_failed" /\ response[q] = "create_failed"
        /\ last_write["X"] = WrittenBy("reset_nonce", cache["X"])

\* The caches reset_nonce can find: any set of accounts with any values.
Caches == UNION {[S -> 0..(MaxNonce + 1)] : S \in SUBSET Identity}

\* cache.insert(account, v) on any cache, with the entry higher, lower, equal or
\* absent: the entry is v, the other entries are as they were.
ResetOverwrites ==
    \A m \in Caches, a \in Identity, v \in 0..MaxNonce :
        LET after == ResetCache(m, a, v) IN
            /\ DOMAIN after = DOMAIN m \cup {a}
            /\ after[a] = v
            /\ \A k \in DOMAIN m \ {a} : after[k] = m[k]

\* C14: reset_nonce(account, v) is one step of the task once it has the lock:
\* it fetches nothing from the chain, has no error to return, and leaves the
\* entry of the account at v whatever it held, and the other entries alone.
C14_RollbackOverwrites ==
    [][/\ ResetOverwrites
       /\ \A r \in Requests :
            (pc[r] \in ResetSites /\ pc'[r] # pc[r])
                => /\ lock = Free /\ lock' = Free
                   /\ cache' = [k \in DOMAIN cache \cup {Account(r)} |->
                                   IF k = Account(r) THEN Unwrap(nonce[r]) ELSE cache[k]]
                   /\ observed' = observed /\ chain_nonce' = chain_nonce
                   /\ chain' = chain
                   /\ pc'[r] = "done"
                   /\ response'[r] = ResponseAfterReset(pc[r])]_vars

\* C14: reset_nonce has lowered an entry below a nonce that another request of
\* the account holds for its pending transaction.
C14_Witness ==
    \E r \in Requests, q \in Requests :
        /\ response[r] \in FailedResponses
        /\ pc[q] = "wait" /\ nonce[q] # None
        /\ last_write[Account(q)] = WrittenBy("reset_nonce", cache[Account(q)])
        /\ cache[Account(q)] < Unwrap(nonce[q])

\* The tasks inside a critical section of the cache: get_next_nonce from its
\* read of the cache to its return, sync_with_chain from the start of its loop
\* to its return.  (reset_nonce is inside its own for one step only.)
InAllocate == {r \in Requests : pc[r] \in {"fetch", "reserved"}}
InSync == IF sync_pc \in {"sweep", "return"} THEN {"sync"} ELSE {}

C16_LoopGoesOn ==
    /\ sync_pc \in {"sleep", "lock_wait", "sweep", "return"}
    /\ sync_pc = "return" => AfterSync(sync_err) = "sleep" /\ ENABLED SyncReturn
    /\ sync_pc = "sleep" => ENABLED Tick

\* C16: a call of sync_with_chain returned an error, and the task has called
\* it again on the next tick.
C16_Witness ==
    /\ sync_pc = "lock_wait"
    /\ sync_err # {}

\* C17: every account with an entry is one that a get_next_nonce call has
\* chosen a nonce for: a failed get_next_nonce, sync_with_chain and the
\* handler's reset_nonce calls create no entry for any other account.
C17_EntriesFromAllocate ==
    /\ DOMAIN cache \subseteq allocated
    /\ \A r \in Requests : pc[r] \in ResetSites => Account(r) \in DOMAIN cache

\* C17: one account has an entry, written last by reset_nonce; a get_next_nonce
\* has failed and a sweep has gone over the cache; the other account has none.
C17_Witness ==
    /\ DOMAIN cache = {"X"}
    /\ last_write["X"].by = "reset_nonce"
    /\ \E r \in Requests : response[r] = "nonce_failed"
    /\ sync_pc = "return" /\ "X" \in DOMAIN seen

\* C18: an entry, once made, stays: every account get_next_nonce has made an
\* entry for, every account a call has written, and every entry a running
\* sweep found at its start, has an entry.
C18_NeverDeleted ==
    /\ allocated \subseteq DOMAIN cache
    /\ \A a \in Identity : last_write[a].by # "none" => a \in DOMAIN cache
    /\ DOMAIN pre_sync \subseteq DOMAIN cache

\* C18: both accounts have their entry after a reset_nonce of one and a raising
\* sweep over the other.
C18_Witness ==
    /\ DOMAIN cache = Identity
    /\ last_write["X"].by = "reset_nonce"
    /\ last_write["Y"].by = "sync_with_chain"

\* C19: the block a success response names is the block the request's
\* transaction was included in.
C19_InclusionBlock ==
    [][\A r \in Requests :
        (pc[r] = "latest" /\ response'[r] = "success")
            => block_hash'[r] = in_block[r]]_vars

\* C20: create_signed_transaction_with_nonce tries try_with_explicit_nonce
\* first, with the nonce it was given; create_signed is called exactly when
\* that returned an error; the call fails exactly when create_signed fails
\* too, and the error it returns is the one of create_signed.
C20_ExplicitThenFallback ==
    /\ [](\A r \in Requests :
            /\ pc[r] = "reset_create" => error[r] = Some(FallbackError)
            /\ error[r] # None => pc[r] = "reset_create"
            /\ pc[r] \in {"construct", "fallback"} => tx[r] = None /\ nonce[r] # None)
    /\ [][\A r \in Requests :
            /\ (pc[r] # "construct" /\ pc'[r] = "construct") => pc[r] = "reserved"
            /\ (pc[r] = "construct" /\ pc'[r] # "construct")
                  => \/ pc'[r] = "send" /\ tx'[r] = nonce[r]
                     \/ pc'[r] = "fallback"
            /\ (pc[r] # "fallback" /\ pc'[r] = "fallback") => pc[r] = "construct"
            /\ (pc[r] = "fallback" /\ pc'[r] # "fallback")
                  => \/ pc'[r] = "send" /\ tx'[r] = Some(chain[Account(r)])
                     \/ pc'[r] = "reset_create"
            /\ (pc[r] # "reset_create" /\ pc'[r] = "reset_create") => pc[r] = "fallback"
            /\ (pc[r] # "send" /\ pc'[r] = "send") => pc[r] \in {"construct", "fallback"}]_vars

\* C20: both signing methods have failed for one request, and the fallback has
\* signed another request's transaction with a nonce that is not the one the
\* request was given.
C20_Witness ==
    \E r \in Requests, q \in Requests :
        /\ pc[r] = "reset_create" /\ error[r] = Some(FallbackError)
        /\ pc[q] = "send" /\ tx[q] # nonce[q]

\* C21 as stated: a handler that has reached a reset_nonce call can complete it
\* at once, whatever the other tasks are doing.
C21_NeverWaits ==
    \A r \in Requests : pc[r] \in ResetSites => ENABLED ResetNonce(r)

\* C21 amended: reset_nonce has no round-trip of its own and waits for nothing
\* but the lock: it can complete at once exactly when no get_next_nonce and no
\* sync_with_chain is inside its critical section, and it waits while one is,
\* that task's account_nonce round-trip included.
C21_WaitsOnlyForLock ==
    \A r \in Requests :
        pc[r] \in ResetSites =>
            /\ ENABLED ResetNonce(r) <=> (InAllocate = {} /\ InSync = {})
            /\ ENABLED ResetNonce(r) <=> lock = Free

\* C21: a reset_nonce waits while the sweep, between two of its fetches, holds
\* the lock.
C21_Witness ==
    \E r \in Requests :
        /\ pc[r] \in ResetSites
        /\ sync_pc = "sweep" /\ todo # {} /\ seen # EmptyMap
        /\ ~ENABLED ResetNonce(r)

\* C22: the handler calls reset_nonce(account, n) only for a transaction the
\* ledger has not included: no request stands at a reset_nonce call while its
\* transaction has consumed the nonce.
C22_RollbackOnlyUncommitted ==
    \A r \in Requests : pc[r] \in ResetSites => ~included[r]

\* C23: a nonce that was handed out and that the ledger has not consumed is
\* handed out again: whenever every request of an account has ended and the
\* lock is free, the entry is not past the account's next nonce on the ledger,
\* so the next get_next_nonce returns that nonce.
C23_NotStranded ==
    \A a \in DOMAIN cache :
        (lock = Free /\ \A r \in Requests : account_id[r] # Some(a))
            => cache[a] <= chain[a]

\* C25: a reset_nonce call of the handler never leaves the entry higher than
\* it was immediately before the call.
C25_RollbackOnlyDownward ==
    [][\A r \in Requests :
          (pc[r] \in ResetSites /\ pc'[r] = "done")
              => cache'[Account(r)] <= cache[Account(r)]]_vars

\* C26: a request whose transaction is reported finalized, the only requests
\* that answer success, had its transaction signed with the nonce that
\* get_next_nonce returned to it.
C26_SuccessWithAllocatedNonce ==
    [][\A r \in Requests :
          (pc[r] = "wait" /\ pc'[r] = "latest") => tx[r] = nonce[r]]_vars

\* C29: once the account has an entry, get_next_nonce does not fetch the
\* account nonce again: a call is at its fetch, holding the lock, only when it
\* found no entry.
C29_NoRedundantFetch ==
    \A r \in Requests : pc[r] = "fetch" => cached_nonce[r] = None

\* C24: no get_next_nonce step and no sync_with_chain step lowers an entry:
\* after its write a get_next_nonce call leaves the entry above the one it
\* read, and during a sweep every entry is at least what it was when the sweep
\* took the lock (the lock keeps every other writer out of both).
C24_LoweredOnlyByReset ==
    /\ \A r \in Requests :
           (Reserved(r) /\ cached_nonce[r] # None)
               => cache[Account(r)] > Unwrap(cached_nonce[r])
    /\ sync_pc \in {"sweep", "return"}
           => \A a \in DOMAIN pre_sync : cache[a] >= pre_sync[a]

\* C24: a get_next_nonce call found an entry above the account nonce it
\* fetched and has raised the entry by one, with a sweep waiting for the lock.
C24_Witness ==
    \E r \in Requests :
        /\ Reserved(r) /\ cached_nonce[r] # None
        /\ Unwrap(chain_nonce[r]) < Unwrap(cached_nonce[r])
        /\ cache[Account(r)] = Unwrap(cached_nonce[r]) + 1
        /\ sync_pc = "lock_wait"

\* C27: from the moment sync_with_chain takes the lock until it returns, after
\* its last account or at the first failed fetch, it holds the lock: no
\* get_next_nonce call is inside its critical section or can enter or leave
\* it, no reset_nonce can write, and the cache holds exactly what the sweep
\* found and what the sweep itself has written.
C27_SweepHoldsLock ==
    sync_pc \in {"sweep", "return"} =>
        /\ lock = BySync
        /\ \A r \in Requests :
               /\ pc[r] \notin {"fetch", "reserved"}
               /\ ~ENABLED AllocLock(r)
               /\ ~ENABLED AllocReturn(r)
               /\ ~ENABLED ResetNonce(r)
        /\ DOMAIN cache = DOMAIN pre_sync
        /\ \A a \in DOMAIN cache :
               cache[a] = IF a \in DOMAIN seen THEN Synced(pre_sync[a], seen[a])
                                               ELSE pre_sync[a]

\* C27: a sweep stopped on a failed fetch after it had processed one account,
\* and still holds the lock while a handler waits to call reset_nonce.
C27_Witness ==
    /\ sync_pc = "return" /\ sync_err # {} /\ seen # EmptyMap
    /\ lock = BySync
    /\ \E r \in Requests : pc[r] \in ResetSites

\* C28: within a request the steps keep their order: signing starts only when
\* get_next_nonce has returned a nonce, a transaction comes to exist only by
\* signing, it is sent only after signing succeeded, the finalization wait
\* starts only after submit_and_watch succeeded; a request answered with
\* "invalid signer" or "failed to get nonce" ends there, without a transaction.
C28_StepsInOrder ==
    [][\A r \in Requests :
          /\ (pc'[r] = "construct" /\ pc[r] # "construct")
                => (pc[r] = "reserved" /\ nonce[r] # None)
          /\ (pc'[r] = "fallback" /\ pc[r] # "fallback") => pc[r] = "construct"
          /\ (tx'[r] # None /\ tx[r] = None)
                => (pc[r] \in {"construct", "fallback"} /\ pc'[r] = "send")
          /\ (pc'[r] = "send" /\ pc[r] # "send")
                => (pc[r] \in {"construct", "fallback"} /\ tx'[r] # None)
          /\ (pc'[r] = "wait" /\ pc[r] # "wait")
                => (pc[r] = "send" /\ tx[r] # None /\ nonce[r] # None)
          /\ (response'[r] = "invalid_signer" /\ response[r] = "none")
                => (pc[r] = "idle" /\ pc'[r] = "done")
          /\ (response'[r] = "nonce_failed" /\ response[r] = "none")
                => (pc[r] = "fetch" /\ pc'[r] = "done")
          /\ (pc[r] = "fetch" /\ pc'[r] # "fetch")
                => (pc'[r] = "done" \/ (pc'[r] = "reserved" /\ nonce'[r] # None))
          /\ pc[r] = "done"
                => (pc'[r] \in {"done", "idle"} /\ tx[r] = None /\ tx'[r] = None)]_vars

\* C28: a request that got a nonce, signed and sent waits for finalization,
\* its transaction included, after a sweep was aborted.
C28_Witness ==
    \E r \in Requests :
        /\ pc[r] = "wait" /\ included[r]
        /\ nonce[r] # None /\ tx[r] = nonce[r]
        /\ sync_err # {}

\* C30: under a fair lock, with every account_nonce call returning, every
\* get_next_nonce, reset_nonce and sync_with_chain call completes, and the
\* lock is never left locked by a call that has returned: whoever holds it is
\* inside get_next_nonce or inside the sweep.  (A get_next_nonce call is
\* followed up to the largest entry the model lets it read.)
C30_CallsComplete ==
    /\ [](/\ \A r \in Requests :
               lock = ByRequest(r) <=> pc[r] \in {"fetch", "reserved"}
          /\ lock = BySync <=> sync_pc \in {"sweep", "return"})
    /\ \A r \in Requests :
           pc[r] = "lock_wait"
               ~> (\/ pc[r] = "fetch"
                   \/ /\ pc[r] = "lock_wait"
                      /\ Get(cache, Account(r)) = Some(MaxNonce + 1))
    /\ \A r \in Requests : pc[r] = "fetch" ~> (lock = Free /\ pc[r] \in {"construct", "done"})
    /\ \A r \in Requests : pc[r] \in ResetSites ~> pc[r] = "done"
    /\ sync_pc = "lock_wait" ~> (lock = Free /\ sync_pc = "sleep")

\* C30: a sweep has been aborted by a failed fetch and has released the lock,
\* and a get_next_nonce call whose fetch failed has released it too.
C30_Witness ==
    /\ sync_pc = "sleep" /\ sync_err # {}
    /\ lock = Free
    /\ \E r \in Requests : pc[r] = "done" /\ response[r] = "nonce_failed"

\* C31: the handler answers success exactly when wait_for_finalized_success
\* returned Ok: a request that leaves the finalized branch answers success, and
\* no other request does.
C31_SuccessIffFinalized ==
    [][\A r \in Requests :
          /\ (response'[r] = "success" /\ response[r] # "success") => pc[r] = "latest"
          /\ (pc[r] = "latest" /\ pc'[r] # "latest") => response'[r] = "success"]_vars

\* C32: get_next_nonce(X) and reset_nonce(X, v) leave the presence and the
\* value of every other account's entry as they were, and sync_with_chain
\* never adds or removes a key: it changes only the value of the entry it has
\* just fetched.
C32_OtherEntriesUntouched ==
    [][/\ \A r \in Requests :
            (\/ pc[r] = "fetch" /\ pc'[r] # "fetch"
             \/ pc[r] \in ResetSites /\ pc'[r] = "done")
                => \A y \in Identity \ {Account(r)} : Get(cache', y) = Get(cache, y)
       /\ (sync_pc' # sync_pc \/ todo' # todo)
            => /\ DOMAIN cache' = DOMAIN cache
               /\ \A y \in DOMAIN cache :
                      cache'[y] # cache[y] => (y \in todo /\ y \notin todo')]_vars

\* C32: a reset_nonce has rewritten the entry of X while the entry of Y is the
\* one an earlier get_next_nonce left.
C32_Witness ==
    /\ DOMAIN cache = Identity
    /\ last_write["X"].by = "reset_nonce"
    /\ last_write["Y"] = WrittenBy("get_next_nonce", cache["Y"] - 1)
    /\ cache["X"] < cache["Y"]

\* C33: a failed fetch ends the sweep at that account: the entries fetched
\* before it hold what the sweep gave them, the failing entry and the entries
\* not yet visited hold what they held when the sweep took the lock, and the
\* loop visits nothing more.
C33_AbortedSweepKeeps ==
    /\ sync_pc = "sweep" => sync_err = {}
    /\ (sync_pc = "return" /\ sync_err # {})
           => /\ Cardinality(sync_err) = 1
              /\ todo = {}
              /\ sync_err \cap DOMAIN seen = {}
              /\ DOMAIN cache = DOMAIN pre_sync
              /\ \A a \in DOMAIN seen : cache[a] = Synced(pre_sync[a], seen[a])
              /\ \A a \in DOMAIN cache \ DOMAIN seen : cache[a] = pre_sync[a]

\* C33: the sweep raised the entry of one account, then the fetch for the
\* other failed although the chain is ahead of that entry, which stays.
C33_Witness ==
    /\ sync_pc = "return" /\ sync_err # {}
    /\ \E a \in DOMAIN seen : cache[a] > pre_sync[a]
    /\ \E a \in sync_err : chain[a] > cache[a] /\ cache[a] = pre_sync[a]

\* C34: no request holds the lock once its get_next_nonce has returned, while
\* it signs, sends and waits for finalization, and a get_next_nonce call of
\* another request can take the lock then, unless another call holds it.
C34_LockFreeWhileSending ==
    \A r \in Requests :
        pc[r] \in {"construct", "fallback", "send", "wait", "latest"} =>
            /\ lock # ByRequest(r)
            /\ \A q \in Requests \ {r} :
                   (/\ pc[q] = "lock_wait" /\ InAllocate = {} /\ InSync = {}
                    /\ Get(cache, Account(q)) \in {Some(n) : n \in 0..MaxNonce} \cup {None})
                       => ENABLED AllocLock(q)

\* C34: the first request, holding nonce n, waits for finalization while the
\* second request of the same account has been handed n + 1.
C34_Witness ==
    \E r \in Requests, q \in Requests :
        /\ pc[r] = "wait" /\ ~included[r]
        /\ pc[q] = "construct" /\ Account(q) = Account(r)
        /\ Unwrap(nonce[q]) = Unwrap(nonce[r]) + 1

\* C35: whenever get_next_nonce has chosen a nonce and written the cache, the
\* entry is that nonce plus one: its successor, and greater than it.
C35_NextIsReturnedPlusOne ==
    \A r \in Requests :
        Reserved(r) =>
            /\ cache[Account(r)] = WrappingAdd1(Unwrap(nonce[r]))
            /\ Less64(Unwrap(nonce[r]), cache[Account(r)])

====
